---- MODULE Spec2Model ----
(***************************************************************************)
(* A model of wavenet_vocoder's WaveNet: construction of the dilation      *)
(* schedule, the bulk pass (forward) and the incremental generation loop   *)
(* (incremental_forward) with its per-layer input buffers.                 *)
(*                                                                         *)
(* Numbers are fixed-point integers: the real value v is held as v * One.  *)
(* Batch size is 1 and the residual channel width is 1, so a signal inside *)
(* the network is one integer per time step; audio frames are sequences of *)
(* `labels` integers.  Optional values (Python None) are the empty         *)
(* sequence; an optional integer n is <<n>>.  Python index i is TLA+ index *)
(* i + 1.                                                                  *)
(***************************************************************************)
EXTENDS Integers, Sequences, FiniteSets, TLC

VARIABLES
    phase,          \* "new" | "ctor_failed" | "idle" | "running" | "returned" | "raised"
    labels,         \* self.labels
    kernel_size,    \* kernel_size given to every Conv1dGLU
    cin_channels,   \* None or <<n>>
    gin_channels,   \* None or <<n>>
    wsel,           \* which weight set the instance holds
    ctor_args,      \* the layers and stacks given to the constructor
    first_conv,     \* TRUE once self.first_conv exists
    conv_layers,    \* the dilation of each Conv1dGLU, in processing order
    conv_bufs,      \* the input buffer of each Conv1dGLU's convolution
    args,           \* the caller's arguments of the current call, as passed
    caller_sees,    \* what the caller's tensors hold while the call runs
    T,              \* local T after lines 127-134
    test_inputs,    \* local test_inputs (time-major) after line 129
    c,              \* local c after line 140
    g_btc,          \* local g_btc after line 137
    current_input,  \* local current_input
    last_ct,        \* local ct as the latest iteration bound it (None before)
    last_gt,        \* local gt as the latest iteration bound it (None before)
    t,              \* loop index: the number of iterations completed
    outputs,        \* local outputs: the frames appended so far
    draws,          \* the values np.random.choice has consumed in this call
    layer_calls,    \* number of layer incremental_forward invocations in this call
    heads,          \* the output of last_conv_layers at each completed iteration
    entry_dirty,    \* whether some buffer held frames when the current call began
    retval,         \* the value returned by the last call that returned
    error,          \* what the last failed call (or construction) raised
    prev,           \* record of the previous returned call (kept in SpecRuns only)
    branch_h,       \* the skip outputs h the blocks of one step have produced so far
    skips_step,     \* local skips of incremental_forward after those blocks
    skips_bulk      \* local skips of forward after the same blocks

vars == <<phase, ctor_args, labels, kernel_size, cin_channels, gin_channels, wsel, first_conv,
          conv_layers, conv_bufs, args, caller_sees, T, test_inputs, c, g_btc,
          current_input, last_ct, last_gt, t, outputs, draws, layer_calls, heads, entry_dirty, retval,
          error, prev, branch_h, skips_step, skips_bulk>>

modelvars == <<ctor_args, labels, kernel_size, cin_channels, gin_channels, wsel, first_conv,
               conv_layers>>

skipvars == <<branch_h, skips_step, skips_bulk>>

None == <<>>

\* 1.0 in fixed point
One == 64

Max(a, b) == IF a >= b THEN a ELSE b
Min(a, b) == IF a <= b THEN a ELSE b
Clamp(v, lo, hi) == Max(lo, Min(hi, v))

RECURSIVE Pow2(_)
Pow2(n) == IF n <= 0 THEN 1 ELSE 2 * Pow2(n - 1)

\* sum of f[lo..hi]
RECURSIVE SumRange(_, _, _)
SumRange(f, lo, hi) ==
    IF lo > hi THEN 0
    ELSE IF lo = hi THEN f[lo]
    ELSE LET mid == (lo + hi) \div 2
         IN  SumRange(f, lo, mid) + SumRange(f, mid + 1, hi)

\* sum of f[1..n]
SumTo(f, n) == SumRange(f, 1, n)

Zeros(n) == [i \in 1..n |-> 0]
OneHot(n, idx) == [i \in 1..n |-> IF i = idx + 1 THEN One ELSE 0]

\* tensor.transpose(1, 2) of a non-empty matrix held as a sequence of rows
Transpose(M) == [j \in 1..Len(M[1]) |-> [i \in 1..Len(M) |-> M[i][j]]]

(***************************************************************************)
(* The weight set: fixed numbers per instance, selected by wsel.           *)
(***************************************************************************)
W_first(l) == ((l * (wsel + 1)) % 5) - 2
B_first == wsel - 1
W_conv(i, j, half) == ((i + 2 * j + half + wsel) % 3) - 1
B_conv(i, half) == (i + half) % 2
W_cin(i, m, half) == ((i + m + half) % 2) + 1
W_gin(i, m, half) == ((i + m + wsel + half) % 3) - 1
W_skip(i) == 1 + ((i + wsel) % 2)
B_skip(i) == i % 2
W_out(i) == 1 - 2 * ((i + wsel) % 2)
B_out(i) == 0
W_last1 == 1
B_last1 == 1
W_last2(l) == ((l + wsel) % 3) - 1
B_last2(l) == l % 2

(***************************************************************************)
(* Pointwise functions of the numeric library, in fixed point.             *)
(***************************************************************************)
Tanh(a) == Clamp(a, 0 - One, One)
Sigmoid(b) == Clamp((b + 2 * One) \div 4, 0, One)
Relu(v) == Max(v, 0)
\* v * math.sqrt(0.5)
MulSqrtHalf(v) == (v * 181) \div 256

\* largest of f[lo..hi]
RECURSIVE MaxRange(_, _, _)
MaxRange(f, lo, hi) ==
    IF lo = hi THEN f[lo]
    ELSE LET mid == (lo + hi) \div 2
         IN  Max(MaxRange(f, lo, mid), MaxRange(f, mid + 1, hi))

MaxTo(f, n) == MaxRange(f, 1, n)

FirstIndexOf(f, v) ==
    CHOOSE i \in 1..Len(f) : f[i] = v /\ \A j \in 1..(i - 1) : f[j] # v

\* F.softmax over the channel dimension: non-negative entries that sum to One
Softmax(x) ==
    LET n == Len(x)
        m == MaxTo(x, n)
        e == [l \in 1..n |-> Pow2(8 + ((x[l] - m) * 3) \div (2 * One))]
        s == SumTo(e, n)
        p == [l \in 1..n |-> (e[l] * One) \div s]
        top == FirstIndexOf(x, m)
    IN  [p EXCEPT ![top] = p[top] + (One - SumTo(p, n))]

(***************************************************************************)
(* Conv1d1x1 and Conv1dGLU (wavenet_vocoder/modules.py).                   *)
(***************************************************************************)
\* first_conv = Conv1d1x1(labels, C): the same product in both modes, no buffer
FirstConv(x) ==
    SumTo([l \in 1..Len(x) |-> W_first(l) * x[l]], Len(x)) + B_first * One

\* frames a convolution of kernel size k and dilation d keeps
BufLen(k, d) == (k - 1) * d + 1

\* step mode: the buffer after the new input x is pushed into it
ConvPush(buf, x, k, d) ==
    IF k = 1 THEN buf
    ELSE (IF buf = None THEN Zeros(BufLen(k, d) - 1) ELSE Tail(buf)) \o <<x>>

\* step mode: the k frames read, spaced d apart, newest last
StepTaps(buf, x, k, d) ==
    IF k = 1 THEN <<x>> ELSE [j \in 1..k |-> buf[1 + (j - 1) * d]]

\* bulk mode: the k frames read at time tt, zero before the sequence starts
BulkTaps(X, tt, k, d) ==
    [j \in 1..k |-> LET s == tt - (k - j) * d IN IF s >= 1 THEN X[s] ELSE 0]

ConvOut(i, taps, half) ==
    SumTo([j \in 1..Len(taps) |-> W_conv(i, j, half) * taps[j]], Len(taps))
        + B_conv(i, half) * One

CinProj(i, ct, half) ==
    SumTo([m \in 1..Len(ct) |-> W_cin(i, m, half) * ct[m]], Len(ct))

GinProj(i, gt, half) ==
    SumTo([m \in 1..Len(gt) |-> W_gin(i, m, half) * gt[m]], Len(gt))

\* conditioning can be used only by a block built with a projection of its width
CondOk(v, channels) == v = None \/ (channels # None /\ Len(v) = channels[1])

\* the gated unit on the frames read: residual output x and skip output h
GLU(i, taps, residual, ct, gt) ==
    LET a == ConvOut(i, taps, 0)
             + (IF ct = None THEN 0 ELSE CinProj(i, ct, 0))
             + (IF gt = None THEN 0 ELSE GinProj(i, gt, 0))
        b == ConvOut(i, taps, 1)
             + (IF ct = None THEN 0 ELSE CinProj(i, ct, 1))
             + (IF gt = None THEN 0 ELSE GinProj(i, gt, 1))
        z == (Tanh(a) * Sigmoid(b)) \div One
    IN  [ok |-> CondOk(ct, cin_channels) /\ CondOk(gt, gin_channels),
         x  |-> W_out(i) * z + B_out(i) * One + residual,
         h  |-> W_skip(i) * z + B_skip(i) * One]

\* a bulk pass that scales the first skip output as well
SkipAccBulkFirstScaled(skips, h) ==
    IF skips = None THEN <<MulSqrtHalf(h)>> ELSE <<MulSqrtHalf(skips[1] + h)>>

\* line 89: skips = h if skips is None else (skips + h) * math.sqrt(0.5)
SkipAccBulk(skips, h) == IF skips = None THEN <<h>> ELSE <<MulSqrtHalf(skips[1] + h)>>

\* skip outputs summed without the scaling
SkipAccStepUnscaled(skips, h) == IF skips = None THEN <<h>> ELSE <<skips[1] + h>>

\* line 170: skips = h if skips is None else (skips + h) * math.sqrt(0.5)
SkipAccStep(skips, h) == IF skips = None THEN <<h>> ELSE <<MulSqrtHalf(skips[1] + h)>>

\* last_conv_layers: ReLU, Conv1d1x1(C, C), ReLU, Conv1d1x1(C, labels)
LastConvLayers(s) ==
    LET h == Relu(W_last1 * Relu(s) + B_last1 * One)
    IN  [l \in 1..labels |-> W_last2(l) * h + B_last2(l) * One]

(***************************************************************************)
(* WaveNet.forward: the bulk pass over a whole sequence.                   *)
(***************************************************************************)
\* _expand_global_features(B, T, g, bct): g repeated for each of n time steps
expand_global_features(n, g) == IF g = None THEN None ELSE [tt \in 1..n |-> g]

\* the conv_layers loop of forward: X is the signal over time, cT and gT the
\* conditioning per time step (or None)
RECURSIVE ForwardLayers(_, _, _, _, _)
ForwardLayers(i, X, skips, cT, gT) ==
    IF i > Len(conv_layers) THEN skips
    ELSE LET r == [tt \in 1..Len(X) |->
                     GLU(i, BulkTaps(X, tt, kernel_size, conv_layers[i]), X[tt],
                         IF cT = None THEN None ELSE cT[tt],
                         IF gT = None THEN None ELSE gT[tt])]
         IN  ForwardLayers(i + 1, [tt \in 1..Len(X) |-> r[tt].x],
                           [tt \in 1..Len(X) |-> SkipAccBulk(skips[tt], r[tt].h)],
                           cT, gT)

\* forward(x, c, g, softmax) for x of shape labels x n and c of shape C' x n;
\* the result is labels x n
forward(x, cc, g, softmax) ==
    LET xT == Transpose(x)
        n  == Len(xT)
        X0 == [tt \in 1..n |-> FirstConv(xT[tt])]
        sk == ForwardLayers(1, X0, [tt \in 1..n |-> None],
                            IF cc = None THEN None ELSE Transpose(cc),
                            expand_global_features(n, g))
        y  == [tt \in 1..n |-> LastConvLayers(sk[tt][1])]
    IN  Transpose([tt \in 1..n |-> IF softmax THEN Softmax(y[tt]) ELSE y[tt]])

(***************************************************************************)
(* WaveNet.incremental_forward: one iteration of the loop.                 *)
(***************************************************************************)
\* the conv_layers loop of one step; stops at the block that raises
RECURSIVE IncLayers(_, _, _, _, _, _)
IncLayers(i, x, skips, bufs, ct, gt) ==
    IF i > Len(conv_layers)
    THEN [ok |-> TRUE, skips |-> skips, bufs |-> bufs, calls |-> i - 1]
    ELSE LET d  == conv_layers[i]
             nb == ConvPush(bufs[i], x, kernel_size, d)
             r  == GLU(i, StepTaps(nb, x, kernel_size, d), x, ct, gt)
             b2 == [bufs EXCEPT ![i] = nb]
         IN  IF ~r.ok
             THEN [ok |-> FALSE, skips |-> skips, bufs |-> b2, calls |-> i]
             ELSE IncLayers(i + 1, r.x, SkipAccStep(skips, r.h), b2, ct, gt)

\* np.random.choice(np.arange(labels), p=p) accepts p only if it is a distribution
ChoiceOk(p) == (\A l \in 1..Len(p) : p[l] >= 0) /\ SumTo(p, Len(p)) = One

\* the index drawn for the uniform variate u in 0..One-1 (0-based): the
\* category whose interval of the cumulative distribution holds u
Choice(p, u) ==
    (CHOOSE l \in 1..Len(p) : SumTo(p, l - 1) <= u /\ u < SumTo(p, l)) - 1

\* every frame is sampled, whatever the quantize flag
QuantizeAlways(y, softmax, quantize, u) ==
    LET x == IF softmax THEN Softmax(y) ELSE y
    IN  IF ~ChoiceOk(x) THEN [ok |-> FALSE, x |-> x, drew |-> FALSE]
        ELSE [ok |-> TRUE, x |-> OneHot(Len(x), Choice(x, u)), drew |-> TRUE]

\* the drawn category is set to 1 without clearing the other entries
QuantizeNotCleared(y, softmax, quantize, u) ==
    LET x == IF softmax THEN Softmax(y) ELSE y
    IN  IF ~quantize THEN [ok |-> TRUE, x |-> x, drew |-> FALSE]
        ELSE IF ~ChoiceOk(x) THEN [ok |-> FALSE, x |-> x, drew |-> FALSE]
        ELSE [ok |-> TRUE, x |-> [x EXCEPT ![Choice(x, u) + 1] = One], drew |-> TRUE]

\* lines 178-184: the frame appended for head output y
\* (drew: whether np.random.choice drew a value; it rejects p before drawing)
Quantize(y, softmax, quantize, u) ==
    LET x == IF softmax THEN Softmax(y) ELSE y
    IN  IF ~quantize THEN [ok |-> TRUE, x |-> x, drew |-> FALSE]
        ELSE IF ~ChoiceOk(x) THEN [ok |-> FALSE, x |-> x, drew |-> FALSE]
        ELSE [ok |-> TRUE, x |-> OneHot(Len(x), Choice(x, u)), drew |-> TRUE]

\* line 162: ct = None if c is None else c[:, t, :].unsqueeze(1)
LocalCond(tt) == IF c = None THEN None ELSE c[tt + 1]

\* line 163: gt = None if g is None else g_btc[:, t, :].unsqueeze(1)
GlobalCond(tt) == IF args.g = None THEN None ELSE g_btc[tt + 1]

\* lines 162-184 for input frame cur at loop index tt (0-based)
LoopBody(cur, tt, bufs, u) ==
    LET ct == LocalCond(tt)
        gt == GlobalCond(tt)
    IN  IF c # None /\ tt >= Len(c)
        THEN [err |-> "IndexError", bufs |-> bufs, calls |-> 0, x |-> None, y |-> None,
              drew |-> FALSE]
        ELSE LET r == IncLayers(1, FirstConv(cur), None, bufs, ct, gt)
             IN  IF ~r.ok
                 THEN [err |-> "AssertionError", bufs |-> r.bufs, calls |-> 1 + r.calls,
                       x |-> None, y |-> None, drew |-> FALSE]
                 ELSE IF r.skips = None
                 THEN [err |-> "TypeError", bufs |-> r.bufs, calls |-> 1 + r.calls,
                       x |-> None, y |-> None, drew |-> FALSE]
                 ELSE LET y == LastConvLayers(r.skips[1])
                          q == Quantize(y, args.softmax, args.quantize, u)
                      IN  [err |-> IF q.ok THEN "" ELSE "ValueError",
                           bufs |-> r.bufs, calls |-> 3 + r.calls,
                           x |-> IF q.ok THEN q.x ELSE None, y |-> y, drew |-> q.drew]


(***************************************************************************)
(* Bounds and the inputs drawn.                                            *)
(***************************************************************************)
\* most steps a caller asks for
MaxT == 3

\* the category the default initial input sets (line 145)
DefaultSeedIndex == 127

\* most layers and stacks a constructor call asks for
MaxLayers == 18
MaxStacks == 6

\* most blocks whose skip outputs are accumulated in one step
MaxBranches == 5

\* skip outputs h a block may produce
BranchValues == {0 - 2 * One, One, 3 * One}

\* uniform variates the randomness source may yield, in 0..One-1
DrawChoices == {One \div 4, (3 * One) \div 4}

NoArgs == [initial_input |-> None, c |-> None, g |-> None, T |-> None,
           test_inputs |-> None, softmax |-> FALSE, quantize |-> FALSE]

\* instances generation is run on
GenConfigs ==
    { [labels |-> 2, layers |-> 2, stacks |-> 1, kernel_size |-> 2,
       cin_channels |-> <<2>>, gin_channels |-> <<1>>, wsel |-> 0],
      [labels |-> 3, layers |-> 2, stacks |-> 2, kernel_size |-> 3,
       cin_channels |-> None, gin_channels |-> None, wsel |-> 1],
      [labels |-> 128, layers |-> 1, stacks |-> 1, kernel_size |-> 2,
       cin_channels |-> None, gin_channels |-> None, wsel |-> 1] }

\* constructor arguments over every schedule within the bounds
CtorConfigs ==
    [labels : {2}, layers : 0..MaxLayers, stacks : 0..MaxStacks, kernel_size : {2},
     cin_channels : {None}, gin_channels : {None}, wsel : {0}]

\* a sequence of frames as the caller's tensor of shape labels x n
ChannelMajor(frames) == Transpose(frames)

\* two sequences of n one-hot frames: the categories 0 and labels - 1 in turn
FramesA(n) == [tt \in 1..n |-> OneHot(labels, IF tt % 2 = 1 THEN 0 ELSE labels - 1)]
FramesB(n) == [tt \in 1..n |-> OneHot(labels, IF tt % 2 = 1 THEN labels - 1 ELSE 0)]

InitialChoices == {None, ChannelMajor(FramesB(1))}

\* local conditioning of shape 2 x n
CTensor(n) == [m \in 1..2 |-> [tt \in 1..n |-> One * (((m + 2 * tt) % 3) - 1)]]

\* the arguments of a call on an instance with few categories
NarrowArgs ==
    [initial_input : InitialChoices,
     c : {None} \cup { CTensor(n) : n \in (MaxT - 1)..MaxT },
     g : {None, <<One>>},
     T : {None} \cup { <<n>> : n \in 0..MaxT },
     test_inputs : {None} \cup UNION { {ChannelMajor(FramesA(k)), ChannelMajor(FramesB(k))} :
                                         k \in 1..MaxT },
     softmax : BOOLEAN, quantize : BOOLEAN]

\* the arguments of a call on an instance with more than DefaultSeedIndex
\* categories
WideArgs ==
    [initial_input : InitialChoices, c : {None}, g : {None},
     T : {None, <<1>>, <<2>>},
     test_inputs : {None, ChannelMajor(FramesA(1))},
     softmax : BOOLEAN, quantize : BOOLEAN]

CallArgs == IF labels > DefaultSeedIndex THEN WideArgs ELSE NarrowArgs

(***************************************************************************)
(* WaveNet.__init__                                                        *)
(***************************************************************************)
\* a constructor without the assertion
ScheduleOkUnchecked(layers, stacks) == stacks # 0

\* assert layers % stacks == 0 passes (a zero stacks raises in the modulus)
ScheduleOk(layers, stacks) == stacks # 0 /\ layers % stacks = 0

\* a schedule whose exponent keeps growing across stacks
ConvLayerDilationsNoRestart(stacks, layers_per_stack) ==
    [i \in 1..(stacks * layers_per_stack) |-> Pow2(i - 1)]

\* the dilations appended by the loops of lines 52-60
RECURSIVE ConvLayerDilations(_, _)
ConvLayerDilations(stacks, layers_per_stack) ==
    IF stacks = 0 THEN <<>>
    ELSE ConvLayerDilations(stacks - 1, layers_per_stack)
             \o [layer \in 1..layers_per_stack |-> Pow2(layer - 1)]

\* a clear_buffer that leaves every buffer as it is
clear_buffer_noop(bufs) == bufs

\* self.clear_buffer(): every cell's buffer is dropped
clear_buffer(bufs) == [i \in 1..Len(bufs) |-> None]

Construct(cfg) ==
    /\ phase = "new"
    /\ ctor_args' = [layers |-> cfg.layers, stacks |-> cfg.stacks]
    /\ labels' = cfg.labels
    /\ IF ScheduleOk(cfg.layers, cfg.stacks)
       THEN /\ phase' = "idle"
            /\ error' = ""
            /\ first_conv' = TRUE
            /\ conv_layers' = ConvLayerDilations(cfg.stacks, cfg.layers \div cfg.stacks)
            /\ conv_bufs' = [i \in 1..Len(conv_layers') |-> None]
            /\ kernel_size' = cfg.kernel_size
            /\ cin_channels' = cfg.cin_channels
            /\ gin_channels' = cfg.gin_channels
            /\ wsel' = cfg.wsel
       ELSE /\ phase' = "ctor_failed"
            /\ error' = IF cfg.stacks = 0 THEN "ZeroDivisionError" ELSE "AssertionError"
            /\ UNCHANGED <<first_conv, conv_layers, conv_bufs, kernel_size,
                           cin_channels, gin_channels, wsel>>
    /\ UNCHANGED <<args, caller_sees, T, test_inputs, c, g_btc, current_input, last_ct,
                   last_gt, t, outputs, draws, layer_calls, heads, entry_dirty, retval, prev,
                   skipvars>>

(***************************************************************************)
(* WaveNet.incremental_forward                                             *)
(***************************************************************************)
\* a call that starts from whatever the buffers hold
EntryBuffersKept(bufs) == bufs

\* line 122: the buffers the call starts from
EntryBuffers(bufs) == clear_buffer(bufs)

\* lines 128-129 and 150-151: a tensor whose second dimension is labels is
\* transposed to time-major
ToTimeMajor(x) == IF Len(x) = labels THEN Transpose(x) ELSE x

\* the transpositions of lines 129 and 151 done on the caller's own tensors
CallerTensorsTransposed(a) ==
    [a EXCEPT !.test_inputs = IF @ = None THEN None ELSE ToTimeMajor(@),
              !.initial_input = IF @ = None THEN None ELSE ToTimeMajor(@)]

\* lines 127-151: transpose(1, 2).contiguous() and torch.zeros make new tensors
\* and only the local names are rebound, so the caller's tensors hold what
\* the caller passed
CallerTensors(a) == a

\* a given T is taken as it is, also when the prefix is longer
ResolveTNoRaise(argT, test) ==
    IF argT # None THEN argT
    ELSE IF test # None THEN <<Len(test)>> ELSE argT

\* a missing T falls back to one step
ResolveTDefaulted(argT, test) ==
    IF test # None
    THEN (IF argT = None THEN <<Len(test)>> ELSE <<Max(argT[1], Len(test))>>)
    ELSE (IF argT = None THEN <<1>> ELSE argT)

\* lines 127-134: the number of steps
ResolveT(argT, test) ==
    IF test # None
    THEN (IF argT = None THEN <<Len(test)>> ELSE <<Max(argT[1], Len(test))>>)
    ELSE argT

\* lines 139-140: c is transposed to time-major when its last dimension is T
LocalC(argc, TT) ==
    IF argc # None /\ TT # None /\ Len(argc[1]) = TT[1] THEN Transpose(argc) ELSE argc

\* what lines 123-154 raise before the first iteration ("" when nothing)
PreLoopError(a, TT) ==
    IF a.g # None /\ TT = None THEN "TypeError"
    ELSE IF a.initial_input = None /\ DefaultSeedIndex >= labels THEN "IndexError"
    ELSE IF TT = None THEN "TypeError"
    ELSE ""

\* lines 143-153
InitialInput(a) ==
    IF a.initial_input = None THEN OneHot(labels, DefaultSeedIndex)
    ELSE ToTimeMajor(a.initial_input)[1]

Call(a) ==
    /\ phase = "idle"
    /\ args' = a
    /\ caller_sees' = CallerTensors(a)
    /\ conv_bufs' = EntryBuffers(conv_bufs)
    /\ test_inputs' = IF a.test_inputs = None THEN None ELSE ToTimeMajor(a.test_inputs)
    /\ T' = ResolveT(a.T, test_inputs')
    /\ c' = LocalC(a.c, T')
    /\ outputs' = <<>>
    /\ draws' = <<>>
    /\ layer_calls' = 0
    /\ heads' = <<>>
    /\ entry_dirty' = (\E i \in 1..Len(conv_bufs) : conv_bufs[i] # None)
    /\ t' = 0
    /\ error' = PreLoopError(a, T')
    /\ g_btc' = IF a.g = None \/ T' = None THEN None
                ELSE expand_global_features(T'[1], a.g)
    /\ current_input' = IF a.initial_input = None /\ DefaultSeedIndex >= labels
                        THEN None ELSE InitialInput(a)
    /\ phase' = IF error' = "" THEN "running" ELSE "raised"
    /\ last_ct' = None
    /\ last_gt' = None
    /\ UNCHANGED <<modelvars, retval, prev, skipvars>>

\* the prefix is used at the first iteration only
CurrentInputFeedbackOnly(tt) ==
    IF tt > 0 THEN outputs[Len(outputs)]
    ELSE IF test_inputs # None THEN test_inputs[1]
    ELSE current_input

\* lines 155-159: the input of iteration tt
CurrentInput(tt) ==
    IF test_inputs # None /\ tt < Len(test_inputs) THEN test_inputs[tt + 1]
    ELSE IF tt > 0 THEN outputs[Len(outputs)]
    ELSE current_input

\* the values the randomness source may yield for one draw
DrawsFor(quantize) == IF quantize THEN DrawChoices ELSE {0}

Step ==
    /\ phase = "running"
    /\ t < T[1]
    /\ \E u \in DrawsFor(args.quantize) :
        LET r == LoopBody(CurrentInput(t), t, conv_bufs, u)
        IN  /\ current_input' = CurrentInput(t)
            /\ last_ct' = IF r.err = "IndexError" THEN last_ct ELSE LocalCond(t)
            /\ last_gt' = IF r.err = "IndexError" THEN last_gt ELSE GlobalCond(t)
            /\ conv_bufs' = r.bufs
            /\ layer_calls' = layer_calls + r.calls
            /\ draws' = IF r.drew THEN Append(draws, u) ELSE draws
            /\ error' = r.err
            /\ IF r.err = ""
               THEN /\ outputs' = Append(outputs, r.x)
                    /\ heads' = Append(heads, r.y)
                    /\ t' = t + 1
                    /\ phase' = "running"
               ELSE /\ phase' = "raised"
                    /\ UNCHANGED <<outputs, heads, t>>
    /\ UNCHANGED <<modelvars, args, caller_sees, T, test_inputs, c, g_btc, entry_dirty,
                   retval, prev, skipvars>>

\* the frames stacked last step first
StackOutputsReversed(outs) == Transpose([s \in 1..Len(outs) |-> outs[Len(outs) + 1 - s]])

\* lines 187-189: torch.stack(outputs), transposed to B x C x T
StackOutputs(outs) == Transpose(outs)

\* lines 186-192
Finish ==
    /\ phase = "running"
    /\ t = T[1]
    /\ IF outputs = <<>>
       THEN /\ phase' = "raised"
            /\ error' = "StackError"
            /\ UNCHANGED <<conv_bufs, retval>>
       ELSE /\ phase' = "returned"
            /\ retval' = StackOutputs(outputs)
            /\ conv_bufs' = clear_buffer(conv_bufs)
            /\ UNCHANGED error
    /\ UNCHANGED <<modelvars, args, caller_sees, T, test_inputs, c, g_btc, current_input,
                   last_ct, last_gt, t, outputs, draws, layer_calls, heads, entry_dirty, prev,
                   skipvars>>

\* control is back at the caller, which drops the call's result; the call's
\* locals are gone and only the instance remains
Release(remember) ==
    /\ phase \in {"returned", "raised"}
    /\ phase' = "idle"
    /\ prev' = IF remember /\ phase = "returned"
               THEN <<[args |-> args, draws |-> draws, retval |-> retval]>>
               ELSE prev
    /\ args' = NoArgs
    /\ caller_sees' = NoArgs
    /\ T' = None
    /\ test_inputs' = None
    /\ c' = None
    /\ g_btc' = None
    /\ current_input' = None
    /\ last_ct' = None
    /\ last_gt' = None
    /\ t' = 0
    /\ outputs' = <<>>
    /\ draws' = <<>>
    /\ layer_calls' = 0
    /\ heads' = <<>>
    /\ entry_dirty' = FALSE
    /\ retval' = None
    /\ error' = ""
    /\ UNCHANGED <<modelvars, conv_bufs, skipvars>>

Init ==
    /\ phase = "new"
    /\ ctor_args = [layers |-> 0, stacks |-> 0]
    /\ labels = 0
    /\ kernel_size = 0
    /\ cin_channels = None
    /\ gin_channels = None
    /\ wsel = 0
    /\ first_conv = FALSE
    /\ conv_layers = <<>>
    /\ conv_bufs = <<>>
    /\ args = NoArgs
    /\ caller_sees = NoArgs
    /\ T = None
    /\ test_inputs = None
    /\ c = None
    /\ g_btc = None
    /\ current_input = None
    /\ last_ct = None
    /\ last_gt = None
    /\ t = 0
    /\ outputs = <<>>
    /\ draws = <<>>
    /\ layer_calls = 0
    /\ heads = <<>>
    /\ entry_dirty = FALSE
    /\ retval = None
    /\ error = ""
    /\ prev = None
    /\ branch_h = <<>>
    /\ skips_step = None
    /\ skips_bulk = None

(***************************************************************************)
(* Generation on a few instances, with every combination of arguments.     *)
(***************************************************************************)
Next ==
    \/ \E cfg \in GenConfigs : Construct(cfg)
    \/ \E a \in CallArgs : Call(a)
    \/ Step
    \/ Finish
    \/ Release(FALSE)

Spec == Init /\ [][Next]_vars

(***************************************************************************)
(* Construction alone, over every schedule within the bounds.              *)
(***************************************************************************)
NextCtor == \E cfg \in CtorConfigs : Construct(cfg)

SpecCtor == Init /\ [][NextCtor]_vars

(***************************************************************************)
(* The dilation schedule.                                                  *)
(***************************************************************************)
Constructed == phase \notin {"new", "ctor_failed"}

\* C5: a constructed model has exactly `layers` blocks, and the block at
\* position i (0-based) has dilation 2^(i mod (layers/stacks)); layers=18,
\* stacks=2 gives 1,2,4,...,256 twice.
C5_DilationSchedule ==
    Constructed =>
        /\ ctor_args.stacks # 0
        /\ ctor_args.layers % ctor_args.stacks = 0
        /\ Len(conv_layers) = ctor_args.layers
        /\ \A i \in 0..(ctor_args.layers - 1) :
              conv_layers[i + 1] = 2 ^ (i % (ctor_args.layers \div ctor_args.stacks))
        /\ (ctor_args.layers = 18 /\ ctor_args.stacks = 2) =>
              conv_layers = <<1, 2, 4, 8, 16, 32, 64, 128, 256,
                              1, 2, 4, 8, 16, 32, 64, 128, 256>>

C5_Witness ==
    /\ phase = "idle"
    /\ ctor_args = [layers |-> 18, stacks |-> 2]
    /\ conv_layers[9] = 256
    /\ conv_layers[10] = 1

\* C6: a constructor call with layers % stacks # 0 fails with an error, no
\* convolution block has been created and no instance results.
C6_InvalidScheduleRejected ==
    (phase # "new" /\ ctor_args.stacks # 0
        /\ ctor_args.layers % ctor_args.stacks # 0) =>
        /\ phase = "ctor_failed"
        /\ error = "AssertionError"
        /\ ~first_conv
        /\ conv_layers = <<>>
        /\ conv_bufs = <<>>

C6_Witness ==
    /\ phase = "ctor_failed"
    /\ ctor_args = [layers |-> 10, stacks |-> 3]
    /\ error = "AssertionError"

(***************************************************************************)
(* What the caller supplied, read from its own tensors.                    *)
(***************************************************************************)
InCall == phase \in {"running", "returned", "raised"}

AllBuffersClear == \A i \in 1..Len(conv_bufs) : conv_bufs[i] = None

\* k: the number of time frames of the caller's prefix (shape labels x k)
PrefixLen == IF args.test_inputs = None THEN 0 ELSE Len(args.test_inputs[1])

\* frame s (1-based) of the caller's prefix
PrefixFrame(s) == [l \in 1..labels |-> args.test_inputs[l][s]]

\* the initial input frame: the caller's seed (shape labels x 1), or category
\* 127 set and every other category clear
SeedFrame ==
    IF args.initial_input = None
    THEN [l \in 1..labels |-> IF l = 128 THEN One ELSE 0]
    ELSE [l \in 1..labels |-> args.initial_input[l][1]]

(***************************************************************************)
(* Step/bulk equivalence.                                                  *)
(***************************************************************************)
\* C1: with the whole input sequence supplied as teacher-forced inputs, no
\* quantization and the same softmax setting, every frame the incremental
\* pass appends equals the bulk pass's output at that time step.
C1_StepBulkEquivalence ==
    (/\ phase \in {"running", "returned"}
     /\ ~args.quantize
     /\ args.test_inputs # None
     /\ T = <<PrefixLen>>
     /\ Len(outputs) >= 1
     /\ args.c # None => Len(args.c[1]) = PrefixLen) =>
        LET y == forward(args.test_inputs, args.c, args.g, args.softmax)
        IN  \A s \in 1..Len(outputs) : \A l \in 1..labels : outputs[s][l] = y[l][s]

C1_Witness ==
    /\ phase = "returned"
    /\ ~args.quantize
    /\ PrefixLen = 3
    /\ T = <<3>>
    /\ args.c # None
    /\ args.g # None
    /\ conv_layers = <<1, 2>>

(***************************************************************************)
(* Input selection.                                                        *)
(***************************************************************************)
\* C2: the input of step s is prefix frame s when s < k; otherwise the frame
\* appended at step s-1 when s > 0, and the initial input frame when s = 0.
C2_InputSelection ==
    (phase \in {"running", "returned"} /\ t >= 1) =>
        LET s == t - 1
        IN  current_input = IF s < PrefixLen THEN PrefixFrame(s + 1)
                            ELSE IF s > 0 THEN outputs[s]
                            ELSE SeedFrame

C2_Witness ==
    /\ phase = "returned"
    /\ args.quantize
    /\ PrefixLen = 2
    /\ t = 3
    /\ current_input = outputs[2]
    /\ current_input # PrefixFrame(2)

(***************************************************************************)
(* Buffers at the end and at the start of a call.                          *)
(***************************************************************************)
\* C3: whenever a call ends, by returning or by raising, every buffer is
\* clear when control is back at the caller.
C3_BuffersClearOnEveryExit ==
    phase \in {"returned", "raised"} => AllBuffersClear

\* the outputs of the current call's arguments and draws on an instance whose
\* buffers are all clear
RECURSIVE FreshRun(_, _, _)
FreshRun(tt, bufs, outs) ==
    IF tt >= T[1] THEN outs
    ELSE LET cur == IF tt < PrefixLen THEN PrefixFrame(tt + 1)
                    ELSE IF tt > 0 THEN outs[tt]
                    ELSE SeedFrame
             u == IF tt < Len(draws) THEN draws[tt + 1] ELSE 0
             r == LoopBody(cur, tt, bufs, u)
         IN  FreshRun(tt + 1, r.bufs, Append(outs, r.x))

\* C4: step 0 of every call starts with every buffer clear, and what a call
\* returns is what the same arguments and draws give on an instance that has
\* run nothing before, whatever was run on the instance earlier.
C4_BufferIndependence ==
    /\ (phase = "running" /\ t = 0) => AllBuffersClear
    /\ phase = "returned" =>
          retval = Transpose(FreshRun(0, [i \in 1..Len(conv_layers) |-> None], <<>>))

C4_Witness ==
    /\ phase = "returned"
    /\ entry_dirty
    /\ t = 3
    /\ PrefixLen < 3
    /\ conv_layers = <<1, 2>>

(***************************************************************************)
(* The number of steps.                                                    *)
(***************************************************************************)
\* C7: with a prefix of k frames the loop runs max(steps, k) times, or k times
\* when steps is not given; without a prefix it runs `steps` times; the
\* returned sequence has that many time frames.
C7_EffectiveStepCount ==
    phase \in {"running", "returned"} =>
        LET expected == IF args.test_inputs # None
                        THEN (IF args.T = None THEN PrefixLen
                              ELSE Max(args.T[1], PrefixLen))
                        ELSE args.T[1]
        IN  /\ T = <<expected>>
            /\ t <= expected
            /\ Len(outputs) = t
            /\ phase = "returned" =>
                  /\ t = expected
                  /\ Len(retval) = labels
                  /\ Len(retval[1]) = expected

C7_Witness ==
    /\ phase = "returned"
    /\ args.T = <<1>>
    /\ PrefixLen = 3
    /\ Len(retval[1]) = 3

\* C8: a call with neither steps nor a prefix raises before any iteration: no
\* layer has run in step mode, nothing was drawn, nothing is returned.
C8_MissingStepCount ==
    (InCall /\ args.T = None /\ args.test_inputs = None) =>
        /\ phase = "raised"
        /\ error # ""
        /\ t = 0
        /\ layer_calls = 0
        /\ draws = <<>>
        /\ outputs = <<>>
        /\ retval = None

C8_Witness ==
    /\ phase = "raised"
    /\ error = "TypeError"
    /\ args.T = None
    /\ args.test_inputs = None
    /\ args.g = None
    /\ args.initial_input # None

(***************************************************************************)
(* Randomness.                                                             *)
(***************************************************************************)
\* C10: without quantization nothing is drawn, every appended frame is the
\* head output of its step (softmax-normalised when softmax is set), and that
\* frame is the next step's input once the prefix is over.
C10_NoRandomnessWithoutQuantize ==
    (InCall /\ ~args.quantize) =>
        /\ draws = <<>>
        /\ Len(heads) = Len(outputs)
        /\ \A s \in 1..Len(outputs) :
              outputs[s] = IF args.softmax THEN Softmax(heads[s]) ELSE heads[s]
        /\ (phase \in {"running", "returned"} /\ t >= 2 /\ t - 1 >= PrefixLen) =>
              current_input = outputs[t - 1]

C10_Witness ==
    /\ phase = "returned"
    /\ ~args.quantize
    /\ args.softmax
    /\ args.test_inputs = None
    /\ t = 3
    /\ current_input = outputs[2]
    /\ outputs[3] = Softmax(heads[3])
    /\ outputs[3] # heads[3]

(***************************************************************************)
(* Two calls with the same arguments and the same draws.                   *)
(***************************************************************************)
RunsConfigs ==
    { [labels |-> 2, layers |-> 2, stacks |-> 1, kernel_size |-> 2,
       cin_channels |-> <<2>>, gin_channels |-> <<1>>, wsel |-> 0] }

RunsArgs ==
    [initial_input : {ChannelMajor(FramesB(1))}, c : {None}, g : {None, <<One>>},
     T : { <<n>> : n \in (MaxT - 1)..MaxT },
     test_inputs : {None, ChannelMajor(FramesA(1))},
     softmax : BOOLEAN, quantize : {TRUE}]

NextRuns ==
    \/ \E cfg \in RunsConfigs : Construct(cfg)
    \/ \E a \in RunsArgs : Call(a)
    \/ Step
    \/ Finish
    \/ Release(TRUE)

SpecRuns == Init /\ [][NextRuns]_vars

\* C9: with quantization, a call whose arguments and draws are those of the
\* previous returned call returns the same sequence, frame by frame.
C9_DeterminismUnderFixedDraws ==
    (/\ phase = "returned"
     /\ prev # None
     /\ args.quantize
     /\ prev[1].args = args
     /\ prev[1].draws = draws) =>
        retval = prev[1].retval

C9_Witness ==
    /\ phase = "returned"
    /\ prev # None
    /\ args.quantize
    /\ prev[1].args = args
    /\ prev[1].draws = draws
    /\ Len(draws) = 3
    /\ retval = prev[1].retval
    /\ retval[1] # retval[2]

(***************************************************************************)
(* The initial input frame.                                                *)
(***************************************************************************)
\* the call has a number of steps and nothing of the loop has run yet
AtLoopEntry == InCall /\ T # None /\ t = 0 /\ layer_calls = 0

\* C11: once the number of steps is known, the initial input frame exists and
\* has one entry per category; without a seed it has category 127 set to 1
\* and every other category 0, whatever the category count; with a seed it is
\* the caller's seed frame.  It is the input of step 0 when the prefix does
\* not cover step 0.
C11_DefaultSeedFrame ==
    /\ AtLoopEntry =>
          /\ current_input # None
          /\ Len(current_input) = labels
          /\ args.initial_input = None =>
                /\ labels > DefaultSeedIndex
                /\ \A l \in 1..labels :
                      current_input[l] = IF l = DefaultSeedIndex + 1 THEN One ELSE 0
          /\ args.initial_input # None =>
                \A l \in 1..labels : current_input[l] = args.initial_input[l][1]
    /\ (phase \in {"running", "returned"} /\ t = 1 /\ PrefixLen = 0) =>
          current_input = SeedFrame

(***************************************************************************)
(* Quantized frames.                                                       *)
(***************************************************************************)
\* calls with quantization, on the instances of GenConfigs
QuantizedArgs == { a \in CallArgs : a.quantize }

NextQuantized ==
    \/ \E cfg \in GenConfigs : Construct(cfg)
    \/ \E a \in QuantizedArgs : Call(a)
    \/ Step
    \/ Finish
    \/ Release(FALSE)

SpecQuantized == Init /\ [][NextQuantized]_vars

\* the distribution the sample of step s (1-based) is drawn from
StepDistribution(s) == IF args.softmax THEN Softmax(heads[s]) ELSE heads[s]

\* C12: with quantization, every completed step has drawn exactly one value,
\* the frame it appended has 1 at the category drawn from the step's output
\* distribution and 0 at every other category, and that frame is the next
\* step's input once the prefix is over.
C12_QuantizedFramesOneHot ==
    (InCall /\ args.quantize) =>
        /\ Len(draws) = Len(outputs)
        /\ Len(heads) = Len(outputs)
        /\ \A s \in 1..Len(outputs) :
              LET drawn == Choice(StepDistribution(s), draws[s])
              IN  outputs[s] = [l \in 1..labels |-> IF l = drawn + 1 THEN One ELSE 0]
        /\ (phase \in {"running", "returned"} /\ t >= 2 /\ t - 1 >= PrefixLen) =>
              current_input = outputs[t - 1]

C12_Witness ==
    /\ phase = "returned"
    /\ args.quantize
    /\ args.softmax
    /\ PrefixLen = 0
    /\ t = 3
    /\ Len(draws) = 3
    /\ outputs[2] # outputs[3]
    /\ current_input = outputs[2]
    /\ \E l \in 1..labels : StepDistribution(3)[l] \notin {0, One}

(***************************************************************************)
(* Skip accumulation on its own: the skips statements of forward and of    *)
(* incremental_forward applied to one block's skip output after another.   *)
(***************************************************************************)
\* lines 88-89 and 169-170: the next block of the step has produced h
AccumulateSkip(h) ==
    /\ Len(branch_h) < MaxBranches
    /\ branch_h' = Append(branch_h, h)
    /\ skips_step' = SkipAccStep(skips_step, h)
    /\ skips_bulk' = SkipAccBulk(skips_bulk, h)
    /\ UNCHANGED <<phase, modelvars, conv_bufs, args, caller_sees, T, test_inputs, c, g_btc,
                   current_input, last_ct, last_gt, t, outputs, draws, layer_calls,
                   heads, entry_dirty, retval, error, prev>>

NextSkips == \E h \in BranchValues : AccumulateSkip(h)

SpecSkips == Init /\ [][NextSkips]_vars

Abs(v) == IF v >= 0 THEN v ELSE 0 - v

\* the skip sum after the first n of the skip outputs hs, by the recursion
RECURSIVE SkipRecursion(_, _)
SkipRecursion(hs, n) ==
    IF n = 1 THEN hs[1] ELSE MulSqrtHalf(SkipRecursion(hs, n - 1) + hs[n])

\* every block of the step has produced the same skip output
ConstantBranches ==
    Len(branch_h) >= 1 /\ \A i \in 1..Len(branch_h) : branch_h[i] = branch_h[1]

\* sqrt(0.5)^k in units of 2^-12: a power of 1/2, times sqrt(0.5) for odd k
SqrtHalfPow(k) ==
    (IF k % 2 = 0 THEN Pow2(12) ELSE MulSqrtHalf(Pow2(12))) \div Pow2(k \div 2)

\* 1 + 1/sqrt2 + 1/2 + ... (n terms), in units of 2^-12
GeometricWeight(n) == SumRange([k \in 0..(n - 1) |-> SqrtHalfPow(k)], 0, n - 1)

\* the weight the recursion gives n equal skip outputs: the first is scaled
\* n - 1 times, the i-th later one n - i + 1 times
RecursionWeight(n) ==
    SqrtHalfPow(n - 1) + SumRange([k \in 1..(n - 1) |-> SqrtHalfPow(k)], 1, n - 1)

\* sum is v times weight / 2^12, to within 4 units of fixed-point rounding
NearProduct(sum, v, weight) ==
    Abs(sum * Pow2(12) - v * weight) <= 4 * Pow2(12)

\* the recursion holds on both paths, and the sum stays within 3 |v| (and the
\* rounding) however many equal skip outputs are accumulated
SkipRecursionAndBound ==
    Len(branch_h) >= 1 =>
        /\ skips_step = <<SkipRecursion(branch_h, Len(branch_h))>>
        /\ skips_bulk = <<SkipRecursion(branch_h, Len(branch_h))>>
        /\ ConstantBranches => Abs(skips_step[1]) <= 3 * Abs(branch_h[1]) + 4

\* C13, as amended: on both paths the skip sum is the first skip output after
\* the first block and (skip sum + skip output) * sqrt(0.5) after each later
\* block; for N equal skip outputs v it is
\* v * (sqrt(0.5)^(N-1) + sqrt(0.5) + sqrt(0.5)^2 + ... + sqrt(0.5)^(N-1)),
\* which stays below 3 |v| for every N.
C13_SkipScaling ==
    /\ SkipRecursionAndBound
    /\ ConstantBranches =>
          NearProduct(skips_step[1], branch_h[1], RecursionWeight(Len(branch_h)))

\* C13, as stated: the same, but for N equal skip outputs v the sum is
\* v * (1 + 1/sqrt2 + 1/2 + ...) with N terms.
C13_SkipScalingAsStated ==
    /\ SkipRecursionAndBound
    /\ ConstantBranches =>
          NearProduct(skips_step[1], branch_h[1], GeometricWeight(Len(branch_h)))

C13_Witness ==
    /\ Len(branch_h) = 5
    /\ ConstantBranches
    /\ branch_h[1] = 3 * One
    /\ skips_step = skips_bulk
    /\ skips_step[1] > 2 * branch_h[1]
    /\ skips_step[1] < 3 * branch_h[1]

(***************************************************************************)
(* Conditioning of each step.                                              *)
(***************************************************************************)
\* time frame s (1-based) of the caller's local conditioning (shape C' x n)
LocalFrame(s) == [m \in 1..Len(args.c) |-> args.c[m][s]]

\* C14: at every completed step the blocks were given the caller's g as
\* global conditioning (nothing iff g is absent) and, as local conditioning,
\* the time frame of the caller's c at that step's index (nothing iff c is
\* absent), also when the number of steps came from the prefix.
C14_PerStepConditioning ==
    (phase \in {"running", "returned"} /\ t >= 1) =>
        /\ last_gt = args.g
        /\ args.c = None => last_ct = None
        /\ args.c # None =>
              /\ t <= Len(args.c[1])
              /\ last_ct = LocalFrame(t)

(***************************************************************************)
(* Progress of a call: the loop body and the statements after the loop run *)
(* to completion, one after the other, without waiting for anything.       *)
(***************************************************************************)
\* line 154: while iterations remain, the next one completes or raises.  Only
\* Step leaves a state in which the loop has iterations left, and it can
\* always be taken there, so fairness of this effect is fairness of Step.
LoopAdvances ==
    /\ phase = "running"
    /\ t < T[1]
    /\ \/ phase' = "running" /\ t' = t + 1
       \/ phase' = "raised" /\ t' = t

\* lines 186-192: after the last iteration the call returns, or raises in
\* torch.stack; only Finish leaves such a state.
LoopExits ==
    /\ phase = "running"
    /\ t = T[1]
    /\ phase' \in {"returned", "raised"}
    /\ t' = t

SpecLive ==
    Init /\ [][Next]_vars /\ WF_<<phase, t>>(LoopAdvances) /\ WF_<<phase, t>>(LoopExits)

\* what one transition may do to the loop index and the frames appended
StepwiseProgress ==
    /\ phase' = "running" =>
          \/ phase = "idle" /\ t' = 0 /\ outputs' = <<>>
          \/ /\ phase = "running"
             /\ t' = t + 1
             /\ Len(outputs') = Len(outputs) + 1
             /\ \A s \in 1..Len(outputs) : outputs'[s] = outputs[s]
    /\ (phase = "running" /\ phase' # "running") =>
          /\ t' = t
          /\ outputs' = outputs
    /\ phase' = "returned" => (phase = "running" /\ t = T[1] /\ T[1] >= 1)

\* the frames appended so far are those of the steps 0 .. t-1, and the frames
\* returned are the frames appended, in the order of their steps
FramesInStepOrder ==
    /\ phase \in {"running", "returned"} => (Len(outputs) = t /\ t <= T[1])
    /\ phase = "returned" =>
          /\ Len(retval) = labels
          /\ \A l \in 1..labels : Len(retval[l]) = T[1]
          /\ \A s \in 1..T[1] : \A l \in 1..labels : retval[l][s] = outputs[s][l]

\* C15: a call goes from entry through steps 0, 1, ..., T-1 to the return:
\* the loop index rises by exactly 1 per step and each step appends exactly
\* one frame before the next begins; a call returns only after step T-1, and
\* frame s of what it returns is the frame appended at step s; a call that
\* has entered the loop with T >= 1 eventually returns, unless it raises.
C15_StepProgression ==
    /\ [][StepwiseProgress]_vars
    /\ []FramesInStepOrder
    /\ (phase = "running" /\ T[1] >= 1) ~> (phase \in {"returned", "raised"})

C15_Witness ==
    /\ phase = "returned"
    /\ T = <<3>>
    /\ t = 3
    /\ Len(outputs) = 3
    /\ outputs[1] # outputs[3]
    /\ \A l \in 1..labels : retval[l][3] = outputs[3][l]

(***************************************************************************)
(* What a call leaves alone.                                               *)
(***************************************************************************)
\* what one transition of a constructed instance may not change: the weight
\* set and the configuration; and, while a call runs, its arguments
FrameOfGeneration ==
    /\ phase # "new" =>
          /\ wsel' = wsel
          /\ labels' = labels
          /\ kernel_size' = kernel_size
          /\ cin_channels' = cin_channels
          /\ gin_channels' = gin_channels
          /\ conv_layers' = conv_layers
          /\ first_conv' = first_conv
    /\ (InCall /\ phase' # "idle") =>
          /\ args' = args
          /\ caller_sees' = caller_sees

\* C16: a call changes only the buffers and its own locals: the weight set,
\* the category count, the block list and its dilations stay as constructed,
\* and the caller's seed, prefix and conditioning tensors hold what the
\* caller passed, at every step and when the call has returned or raised.
C16_FrameEffect ==
    /\ [][FrameOfGeneration]_vars
    /\ [](InCall => caller_sees = args)
    /\ [](Constructed =>
            conv_layers = ConvLayerDilations(ctor_args.stacks,
                                             ctor_args.layers \div ctor_args.stacks))

C16_Witness ==
    /\ phase = "returned"
    /\ t = 3
    /\ args.initial_input # None
    /\ args.test_inputs # None
    /\ args.c # None
    /\ args.g # None
    /\ test_inputs # args.test_inputs
    /\ c # args.c
    /\ caller_sees = args
    /\ AllBuffersClear
    /\ conv_layers = <<1, 2>>

====
